---- MODULE Spec2Model ----
(***************************************************************************)
(* A model of the batch page auditor of scraper.go: the websocket session  *)
(* handler wsHandler (ingestion of the uploaded CSV batch, the sequential  *)
(* fetch/parse loop, the progress events, the export of output.csv) with   *)
(* checkSelfReferencingLinks and removeBOM as operators.                   *)
(***************************************************************************)
EXTENDS Integers, Sequences, FiniteSets, TLC

(***************************************************************************)
(* IEEE-754 binary64 arithmetic, as far as line 170 uses it:               *)
(*     int(float64(i+1) / float64(totalUrls) * 100)                        *)
(* A positive double is [sig |-> significand, e |-> exponent] and stands   *)
(* for sig * 2^e.  The 53-bit significand is kept as limbs, most           *)
(* significant first: a top limb (1 when normalised) and four limbs of 13  *)
(* bits, since the model's integers are 32 bits wide.  Division and        *)
(* multiplication round to nearest, ties to even; int() truncates.         *)
(***************************************************************************)

RECURSIVE Pow2(_)
Pow2(t) == IF t = 0 THEN 1 ELSE 2 * Pow2(t - 1)

\* Bits in one limb, limbs below the top one, and the limb's radix.
LimbBits == 13
LowLimbs == 4
Radix == Pow2(LimbBits)
\* Fraction bits of a binary64 significand: 52, with the leading 1 above them.
FracBits == LowLimbs * LimbBits

\* The least t >= 0 with a * 2^t >= b.
RECURSIVE NormShift(_, _)
NormShift(a, b) == IF a >= b THEN 0 ELSE 1 + NormShift(2 * a, b)

\* Number of bits of n >= 0.
RECURSIVE BitLen(_)
BitLen(n) == IF n = 0 THEN 0 ELSE 1 + BitLen(n \div 2)

\* n further limbs of the long division of r by b (r < b).
RECURSIVE DivLimbs(_, _, _)
DivLimbs(r, b, n) ==
    IF n = 0 THEN [limbs |-> <<>>, rem |-> r]
    ELSE LET rest == DivLimbs((r * Radix) % b, b, n - 1)
         IN  [limbs |-> <<(r * Radix) \div b>> \o rest.limbs, rem |-> rest.rem]

\* limbs * c + carry, the top limb taking whatever is carried out.
RECURSIVE MulLimbs(_, _, _)
MulLimbs(limbs, c, carry) ==
    IF Len(limbs) = 1 THEN <<limbs[1] * c + carry>>
    ELSE LET v == limbs[Len(limbs)] * c + carry
         IN  MulLimbs(SubSeq(limbs, 1, Len(limbs) - 1), c, v \div Radix)
                 \o <<v % Radix>>

\* limbs shifted right by d bits, 0 <= d < LimbBits.
ShrLimbs(limbs, d) ==
    [j \in 1..Len(limbs) |->
        (limbs[j] \div Pow2(d))
        + (IF j > 1 THEN (limbs[j - 1] % Pow2(d)) * Pow2(LimbBits - d) ELSE 0)]

\* Round to nearest, ties to even: the normalised significand sig with guard
\* bit g and sticky bit s below it.  A carry out of the top gives 2^53, which
\* is 2^52 at the next exponent.
RoundEven(sig, e, g, s) ==
    IF g = 1 /\ (s \/ sig[Len(sig)] % 2 = 1)
    THEN LET up == MulLimbs(sig, 1, 1)
         IN  IF up[1] > 1
             THEN [sig |-> ShrLimbs(up, 1), e |-> e + 1]
             ELSE [sig |-> up, e |-> e]
    ELSE [sig |-> sig, e |-> e]

\* float64(a) / float64(b) for integers 1 <= a <= b.
F64Div(a, b) ==
    LET t == NormShift(a, b)
        q == DivLimbs(a * Pow2(t) - b, b, LowLimbs)
        g == IF 2 * q.rem >= b THEN 1 ELSE 0
        s == 2 * q.rem - g * b > 0
    IN  RoundEven(<<1>> \o q.limbs, 0 - FracBits - t, g, s)

\* x * float64(c) for a double x and an integer 1 <= c < 2^13.
F64Mul(x, c) ==
    LET p    == MulLimbs(x.sig, c, 0)
        d    == BitLen(p[1]) - 1
        low  == p[Len(p)] % Pow2(d)
        g    == IF d > 0 THEN low \div Pow2(d - 1) ELSE 0
        s    == d > 0 /\ low % Pow2(d - 1) > 0
    IN  RoundEven(ShrLimbs(p, d), x.e + d, g, s)

\* int(x): the integer part of a double 0 < x < 2^13 (truncation).
F64ToInt(x) ==
    LET drop  == 0 - x.e
        whole == drop \div LimbBits
        kept  == SubSeq(x.sig, 1, Len(x.sig) - whole)
    IN  IF kept = <<>> THEN 0
        ELSE LET r == ShrLimbs(kept, drop % LimbBits)
             IN  IF Len(r) = 1 THEN r[1] ELSE r[1] * Radix + r[2]

\* progress := int(float64(i+1) / float64(totalUrls) * 100)
ProgressPercent(i, totalUrls) ==
    F64ToInt(F64Mul(F64Div(i + 1, totalUrls), 100))

(***************************************************************************)
(* Text.  A field of the uploaded batch is a sequence of characters; the   *)
(* byte-order mark EF BB BF is one character, U+FEFF, which is not white   *)
(* space for strings.TrimSpace.  A normalised URL is the string of its     *)
(* characters.                                                             *)
(***************************************************************************)

BOM == "<BOM>"
WhiteSpace == {" "}

\* strings.TrimSpace(record[0]): leading and trailing white space removed.
RECURSIVE TrimLeft(_)
TrimLeft(f) ==
    IF f # <<>> /\ f[1] \in WhiteSpace THEN TrimLeft(Tail(f)) ELSE f

RECURSIVE TrimRight(_)
TrimRight(f) ==
    IF f # <<>> /\ f[Len(f)] \in WhiteSpace
    THEN TrimRight(SubSeq(f, 1, Len(f) - 1)) ELSE f

TrimSpace(f) == TrimRight(TrimLeft(f))

\* removeBOM: one leading byte-order mark is cut off, nothing else.
removeBOM(f) ==
    IF f # <<>> /\ f[1] = BOM THEN Tail(f) ELSE f

\* The string of a character sequence.
RECURSIVE Str(_)
Str(f) == IF f = <<>> THEN "" ELSE f[1] \o Str(Tail(f))

\* url := removeBOM(strings.TrimSpace(record[0]))
NormalizeURL(record) == Str(removeBOM(TrimSpace(record[1])))

(***************************************************************************)
(* Pages.  A parsed document is its <title> elements' texts and its <a>    *)
(* elements in document order; an attribute is present with a value, or    *)
(* absent.                                                                 *)
(***************************************************************************)

Absent == [has |-> FALSE, val |-> ""]
Attr(v) == [has |-> TRUE, val |-> v]

\* List of classes to ignore (exact class attribute strings).
ignoredClasses ==
    { "footer__copy-logo",
      "header__upper-link",
      "mp-share__toggle",
      "mp-share__toggle  breadcrumbs__tag",
      "mp-link mp-link--dark localisation-toggle localisation-setter",
      "hash-scroll",
      "mp-available-session__show-detail",
      "mp-available-session__hide-detail" }

\* s.Attr(name): the value, "" when the attribute is absent.
AttrVal(a) == IF a.has THEN a.val ELSE ""

\* s.AttrOr(name, def)
AttrOr(a, def) == IF a.has THEN a.val ELSE def

\* A fault of IsFlagged: the class attribute is not looked at.
IsFlaggedAnyClass(anchor) == AttrVal(anchor.href) = "#"

\* href == "#" && !ignoredClasses[class]
IsFlagged(anchor) ==
    AttrVal(anchor.href) = "#" /\ AttrVal(anchor.class) \notin ignoredClasses

\* fmt.Sprintf("<a href=\"%s\" class=\"%s\" title=\"%s\">", href, class, title)
AnchorText(anchor) ==
    "<a href=\"" \o AttrVal(anchor.href) \o "\" class=\"" \o AttrVal(anchor.class)
        \o "\" title=\"" \o AttrOr(anchor.title, "No title") \o "\">"

\* The anchorDetails slice after the Each loop over doc.Find("a").
RECURSIVE FlaggedAnchors(_)
FlaggedAnchors(anchors) ==
    IF anchors = <<>> THEN <<>>
    ELSE (IF IsFlagged(anchors[1]) THEN <<AnchorText(anchors[1])>> ELSE <<>>)
             \o FlaggedAnchors(Tail(anchors))

\* strings.Join(elems, sep)
RECURSIVE Join(_, _)
Join(elems, sep) ==
    IF elems = <<>> THEN ""
    ELSE IF Len(elems) = 1 THEN elems[1]
         ELSE elems[1] \o sep \o Join(Tail(elems), sep)

\* A fault of AnyFlagged: found is shadowed inside the closure, so the
\* function's own found is never set.
AnyFlaggedNeverSet(anchors) == FALSE

\* found: set to true in the same branch that appends a descriptor.
AnyFlagged(anchors) == \E j \in 1..Len(anchors) : IsFlagged(anchors[j])

\* checkSelfReferencingLinks(doc) returns (found, strings.Join(anchorDetails, ","))
checkSelfReferencingLinks(doc) ==
    [found |-> AnyFlagged(doc.anchors),
     details |-> Join(FlaggedAnchors(doc.anchors), ",")]

\* doc.Find("title").Text(): the text of the selection's elements, concatenated.
TitleText(doc) == Join(doc.titles, "")

(***************************************************************************)
(* Records: the PageInfo appended on each branch of the fetch loop.        *)
(***************************************************************************)

\* PageInfo{URL: url, Title: "Error", StatusCode: 0, LoadTime: 0}
FetchErrorInfo(url) ==
    [URL |-> url, Title |-> "Error", StatusCode |-> 0, LoadTime |-> 0,
     SelfReferencingURL |-> FALSE, AnchorDetails |-> ""]

\* A fault of ParseErrorInfo: the record of the fetch-error branch is copied,
\* with its status code 0.
ParseErrorInfoNoStatus(url, r) ==
    [URL |-> url, Title |-> "Error", StatusCode |-> 0,
     LoadTime |-> r.loadTime,
     SelfReferencingURL |-> FALSE, AnchorDetails |-> ""]

\* A fault of ParseErrorInfo: the measured time is left out of the record.
ParseErrorInfoNoTime(url, r) ==
    [URL |-> url, Title |-> "Error", StatusCode |-> r.StatusCode,
     LoadTime |-> 0,
     SelfReferencingURL |-> FALSE, AnchorDetails |-> ""]

\* PageInfo{URL: url, Title: "Error", StatusCode: resp.StatusCode, LoadTime: loadTime}
ParseErrorInfo(url, r) ==
    [URL |-> url, Title |-> "Error", StatusCode |-> r.StatusCode,
     LoadTime |-> r.loadTime,
     SelfReferencingURL |-> FALSE, AnchorDetails |-> ""]

\* The PageInfo of a parsed page.
PageInfoOf(url, r) ==
    LET links == checkSelfReferencingLinks(r.body.doc)
    IN  [URL |-> url, Title |-> TitleText(r.body.doc),
         StatusCode |-> r.StatusCode, LoadTime |-> r.loadTime,
         SelfReferencingURL |-> links.found, AnchorDetails |-> links.details]

(***************************************************************************)
(* The report: rows of six text fields.                                    *)
(***************************************************************************)

Header ==
    <<"URL", "Title", "Status Code", "Load Time (ms)",
      "Self-Referencing URL with #", "Anchor Details">>

NanosPerMilli == 1000000

\* Duration.Milliseconds(): whole milliseconds of a duration in nanoseconds.
Milliseconds(d) == d \div NanosPerMilli

\* fmt.Sprintf("%t", b)
FormatBool(b) == IF b THEN "true" ELSE "false"

\* The row written for one PageInfo.
RowOf(pageInfo) ==
    <<pageInfo.URL,
      pageInfo.Title,
      ToString(pageInfo.StatusCode),
      ToString(Milliseconds(pageInfo.LoadTime)),
      FormatBool(pageInfo.SelfReferencingURL),
      pageInfo.AnchorDetails>>

(***************************************************************************)
(* Inputs.  The uploaded batch is the sequence of its CSV lines, each      *)
(* either a well-formed record (its fields) or malformed (a bare or        *)
(* unterminated quote).  A fetch either fails or gives a response: a       *)
(* status code, the time it took in nanoseconds, and a body that parses    *)
(* into a document or cannot be read.                                      *)
(***************************************************************************)

\* Most lines in a batch.
MaxRecords == 2
\* Most URLs the progress computation is applied to on its own.
MaxTotal == 50

Sessions == {1, 2}

Line(fields) == [ok |-> TRUE, fields |-> fields]
Malformed == [ok |-> FALSE, fields |-> <<>>]

LineSamples ==
    { Line(<< <<"a">> >>),
      Line(<< <<"b">> >>),
      Line(<< <<BOM, "a">> >>),
      Line(<< <<" ", "b", " ">> >>),
      Line(<< <<BOM, " ", "a">> >>),
      Line(<< <<" ">> >>),
      Line(<< <<"a">>, <<"x">> >>),
      Malformed }

Batches == UNION {[1..n -> LineSamples] : n \in 0..MaxRecords}

EmptyDoc == [titles |-> <<>>, anchors |-> <<>>]
Unreadable == [ok |-> FALSE, doc |-> EmptyDoc]
Page(doc) == [ok |-> TRUE, doc |-> doc]

\* <title>Example</title> and no anchors.
DocPlain == [titles |-> <<"Example">>, anchors |-> <<>>]
\* A flagged anchor, an anchor of an ignored class and an ordinary link.
DocLinks ==
    [titles  |-> <<"Shop">>,
     anchors |-> << [href |-> Attr("#"), class |-> Attr("cta"), title |-> Absent],
                    [href |-> Attr("#"), class |-> Attr("footer__copy-logo"),
                     title |-> Attr("Home")],
                    [href |-> Attr("/about"), class |-> Absent, title |-> Absent] >>]

\* No title; an anchor of an ignored class and an in-page link.
DocQuiet ==
    [titles  |-> <<>>,
     anchors |-> << [href |-> Attr("#"), class |-> Attr("hash-scroll"),
                     title |-> Absent],
                    [href |-> Attr("#top"), class |-> Attr("cta"),
                     title |-> Absent] >>]

\* Most <a> elements, and most <title> elements, of a page taken on its own.
MaxAnchors == 2
MaxTitles == 2

\* Attributes an <a> element can carry: none, "#", an in-page link; no class,
\* a class outside the list, one of the list, one of the list among other
\* class names; no title, an empty one, a title.
HrefSamples == {Absent, Attr("#"), Attr("#top")}
ClassSamples ==
    {Absent, Attr("cta"), Attr("hash-scroll"), Attr("hash-scroll cta")}
TitleAttrSamples == {Absent, Attr(""), Attr("Home")}

AnchorSamples ==
    [href : HrefSamples, class : ClassSamples, title : TitleAttrSamples]

\* Texts of <title> elements: the one of <head>, and that of an inline <svg>.
TitleSamples == {"Shop", "Cart icon"}

DocSamples ==
    [titles  : UNION {[1..n -> TitleSamples] : n \in 0..MaxTitles},
     anchors : UNION {[1..n -> AnchorSamples] : n \in 0..MaxAnchors}]

FetchError == [err |-> TRUE, StatusCode |-> 0, elapsed |-> 0, body |-> Unreadable]
Response(code, elapsed, body) ==
    [err |-> FALSE, StatusCode |-> code, elapsed |-> elapsed, body |-> body]

\* What http.Get and the read of the body can give.  net/http takes any
\* three-digit status code from the status line, "000" included, and
\* time.Since is only as fine as the platform's clock.
Outcomes ==
    { FetchError,
      Response(200, 1500000, Page(DocPlain)),
      Response(200, 0, Page(DocLinks)),
      Response(0, 2500000, Page(DocQuiet)),
      Response(404, 999999, Unreadable) }

NoResp == [StatusCode |-> 0, loadTime |-> 0, body |-> Unreadable]

NoFile == [exists |-> FALSE, rows |-> <<>>]
\* output.csv as an earlier session left it.
OldReport ==
    [exists |-> TRUE,
     rows   |-> <<Header, <<"old", "Old", "200", "12", "false", "">> >>]

Deferred(call, arg) == [call |-> call, arg |-> arg]

\* No temporary file: no descriptor ("none", then "open", then "closed") and
\* no file of that name on disk.
NoTemp == [fd |-> "none", exists |-> FALSE]

(***************************************************************************)
(* State.  Every variable but outFile and calc is a function of the        *)
(* session: wsHandler's locals and the objects it owns.                    *)
(***************************************************************************)
VARIABLES
    pc,         \* where the handler stands
    conn,       \* the websocket: "none", "open", "lost" (client gone), "closed"
    sendErr,    \* some conn.WriteMessage has returned an error
    inbox,      \* the batch the client sends
    tempFile,   \* the upload-*.csv temporary file: its descriptor, and its name on disk
    reader,     \* the csv.Reader: the lines not yet read, FieldsPerRecord
    urls,       \* urls
    pageInfos,  \* pageInfos
    idx,        \* i of the fetch loop
    resp,       \* resp and loadTime of the URL being processed
    bodies,     \* per response obtained: how often its Body was closed
    defers,     \* the deferred calls, last registered last
    outFd,      \* outputFile: its state and write offset (in rows)
    wbuf,       \* rows held in the csv.Writer's buffer
    row,        \* rows of pageInfos handed to the csv.Writer
    flushErr,   \* a write of the buffer to output.csv has failed
    events,     \* the messages handed to conn.WriteMessage, in order
    fetchLog,   \* per http.Get issued: the URL and what came back
    failure,    \* "none", or the error the handler returned early on
    outFile,    \* output.csv, shared by all sessions
    calc        \* a computation applied on its own: its input and its result

vars ==
    <<pc, conn, sendErr, inbox, tempFile, reader, urls, pageInfos, idx, resp,
      bodies, defers, outFd, wbuf, row, flushErr, events, fetchLog, failure,
      outFile, calc>>

NoCalc == [i |-> 0, n |-> 0, p |-> -1]

\* The state before any request: the sessions of `active` will connect, each
\* with a batch to send; output.csv may be there from an earlier session.
InitWith(active) ==
    /\ pc = [s \in Sessions |-> IF s \in active THEN "idle" ELSE "off"]
    /\ conn = [s \in Sessions |-> "none"]
    /\ sendErr = [s \in Sessions |-> FALSE]
    /\ inbox \in [Sessions -> Batches]
    /\ \A s \in Sessions \ active : inbox[s] = <<>>
    /\ tempFile = [s \in Sessions |-> NoTemp]
    /\ reader = [s \in Sessions |-> [unread |-> <<>>, fieldsPerRecord |-> 0]]
    /\ urls = [s \in Sessions |-> <<>>]
    /\ pageInfos = [s \in Sessions |-> <<>>]
    /\ idx = [s \in Sessions |-> 0]
    /\ resp = [s \in Sessions |-> NoResp]
    /\ bodies = [s \in Sessions |-> <<>>]
    /\ defers = [s \in Sessions |-> <<>>]
    /\ outFd = [s \in Sessions |-> [state |-> "none", off |-> 0]]
    /\ wbuf = [s \in Sessions |-> <<>>]
    /\ row = [s \in Sessions |-> 0]
    /\ flushErr = [s \in Sessions |-> FALSE]
    /\ events = [s \in Sessions |-> <<>>]
    /\ fetchLog = [s \in Sessions |-> <<>>]
    /\ failure = [s \in Sessions |-> "none"]
    /\ outFile \in {NoFile, OldReport}

Init == InitWith({1}) /\ calc = NoCalc

\* conn.WriteMessage(websocket.TextMessage, m); its error is never looked at.
Send(s, m) ==
    /\ events' = [events EXCEPT ![s] = Append(@, m)]
    /\ sendErr' = [sendErr EXCEPT ![s] = @ \/ conn[s] # "open"]

\* defer f(): f is run when the handler returns.
Defer(s, calls) == defers' = [defers EXCEPT ![s] = @ \o calls]

\* A fault of Fail: the error path leaves by os.Exit, and no deferred call
\* is run.
FailExits(s, kind) ==
    /\ failure' = [failure EXCEPT ![s] = kind]
    /\ pc' = [pc EXCEPT ![s] = "done"]

\* return on an error path; the deferred calls run in Return.
Fail(s, kind) ==
    /\ failure' = [failure EXCEPT ![s] = kind]
    /\ pc' = [pc EXCEPT ![s] = "return"]

\* upgrader.Upgrade: on an error the request is answered 400 and no session
\* starts; otherwise conn.Close is deferred.
Upgrade(s) ==
    /\ pc[s] = "idle"
    /\ \E ok \in BOOLEAN :
         IF ok
         THEN /\ conn' = [conn EXCEPT ![s] = "open"]
              /\ Defer(s, <<Deferred("conn.Close", 0)>>)
              /\ pc' = [pc EXCEPT ![s] = "read"]
         ELSE /\ pc' = [pc EXCEPT ![s] = "refused"]
              /\ UNCHANGED <<conn, defers>>
    /\ UNCHANGED <<sendErr, inbox, tempFile, reader, urls, pageInfos, idx, resp,
                   bodies, outFd, wbuf, row, flushErr, events, fetchLog, failure,
                   outFile, calc>>

\* The client goes away: every later read or write on conn fails.
ClientDisconnect(s) ==
    /\ conn[s] = "open"
    /\ pc[s] \notin {"return", "done"}
    /\ conn' = [conn EXCEPT ![s] = "lost"]
    /\ UNCHANGED <<pc, sendErr, inbox, tempFile, reader, urls, pageInfos, idx,
                   resp, bodies, defers, outFd, wbuf, row, flushErr, events,
                   fetchLog, failure, outFile, calc>>

\* _, msg, err := conn.ReadMessage()
ReadMessage(s) ==
    /\ pc[s] = "read"
    /\ IF conn[s] = "open"
       THEN /\ reader' = [reader EXCEPT ![s].unread = inbox[s]]
            /\ inbox' = [inbox EXCEPT ![s] = <<>>]
            /\ pc' = [pc EXCEPT ![s] = "mktemp"]
            /\ UNCHANGED failure
       ELSE /\ Fail(s, "ReadMessage")
            /\ UNCHANGED <<reader, inbox>>
    /\ UNCHANGED <<conn, sendErr, tempFile, urls, pageInfos, idx, resp, bodies,
                   defers, outFd, wbuf, row, flushErr, events, fetchLog,
                   outFile, calc>>

\* file, err := os.CreateTemp("", "upload-*.csv"); defer os.Remove; defer file.Close
CreateTemp(s) ==
    /\ pc[s] = "mktemp"
    /\ \E ok \in BOOLEAN :
         IF ok
         THEN /\ tempFile' = [tempFile EXCEPT ![s] = [fd |-> "open", exists |-> TRUE]]
              /\ Defer(s, <<Deferred("os.Remove", 0), Deferred("file.Close", 0)>>)
              /\ pc' = [pc EXCEPT ![s] = "wrtemp"]
              /\ UNCHANGED failure
         ELSE /\ Fail(s, "CreateTemp")
              /\ UNCHANGED <<tempFile, defers>>
    /\ UNCHANGED <<conn, sendErr, inbox, reader, urls, pageInfos, idx, resp,
                   bodies, outFd, wbuf, row, flushErr, events, fetchLog,
                   outFile, calc>>

\* file.Write(msg); file.Seek(0, 0); reader := csv.NewReader(file)
WriteTemp(s) ==
    /\ pc[s] = "wrtemp"
    /\ \E ok \in BOOLEAN :
         IF ok
         THEN /\ pc' = [pc EXCEPT ![s] = "ingest"]
              /\ UNCHANGED failure
         ELSE Fail(s, "WriteTemp")
    /\ UNCHANGED <<conn, sendErr, inbox, tempFile, reader, urls, pageInfos, idx,
                   resp, bodies, defers, outFd, wbuf, row, flushErr, events,
                   fetchLog, outFile, calc>>

\* reader.Read() on the next line: a csv.ParseError for a malformed line,
\* csv.ErrFieldCount for a record that has not the first record's number of
\* fields (FieldsPerRecord is 0 in a new Reader and set by the first record).
ReadFails(rd) ==
    \/ ~Head(rd.unread).ok
    \/ /\ rd.fieldsPerRecord # 0
       /\ Len(Head(rd.unread).fields) # rd.fieldsPerRecord

\* A fault of DecodeFailed: the read loop is left with break instead of
\* return, so the URLs read so far are processed.
DecodeFailedBreaks(s) ==
    /\ Send(s, "Error reading CSV file")
    /\ failure' = [failure EXCEPT ![s] = "InputDecodeError"]
    /\ pc' = [pc EXCEPT ![s] = "loop"]

\* err != nil from reader.Read(): one message to the client, and return.
DecodeFailed(s) ==
    /\ Send(s, "Error reading CSV file")
    /\ Fail(s, "InputDecodeError")

\* One turn of the read loop: io.EOF ends it, an error ends the session with
\* one message, a record gives a URL or, with an empty one, is skipped.
ReadRecord(s) ==
    /\ pc[s] = "ingest"
    /\ IF reader[s].unread = <<>>
       THEN /\ pc' = [pc EXCEPT ![s] = "loop"]
            /\ UNCHANGED <<reader, urls, events, sendErr, failure>>
       ELSE IF ReadFails(reader[s])
       THEN /\ DecodeFailed(s)
            /\ UNCHANGED <<reader, urls>>
       ELSE LET record == Head(reader[s].unread).fields
                url    == NormalizeURL(record)
            IN  /\ reader' = [reader EXCEPT ![s] =
                                [unread |-> Tail(@.unread),
                                 fieldsPerRecord |-> Len(record)]]
                /\ urls' = [urls EXCEPT ![s] =
                                IF url = "" THEN @ ELSE Append(@, url)]
                /\ UNCHANGED <<pc, events, sendErr, failure>>
    /\ UNCHANGED <<conn, inbox, tempFile, pageInfos, idx, resp, bodies, defers,
                   outFd, wbuf, row, flushErr, fetchLog, outFile, calc>>

\* fmt.Sprintf("Processing: %s", url)
ProcessingMsg(url) == "Processing: " \o url

\* fmt.Sprintf("Progress: %d%%", progress)
ProgressMsg(progress) == "Progress: " \o ToString(progress) \o "%"

\* A fault of BeginUrl: the URL announced is the last of the list, whichever
\* is about to be fetched.
BeginUrlAnnouncesLast(s) ==
    /\ pc[s] = "loop"
    /\ idx[s] < Len(urls[s])
    /\ Send(s, ProcessingMsg(urls[s][Len(urls[s])]))
    /\ pc' = [pc EXCEPT ![s] = "fetch"]
    /\ UNCHANGED <<conn, inbox, tempFile, reader, urls, pageInfos, idx, resp,
                   bodies, defers, outFd, wbuf, row, flushErr, fetchLog, failure,
                   outFile, calc>>

\* for i, url := range urls: the next URL is announced before its fetch.
BeginUrl(s) ==
    /\ pc[s] = "loop"
    /\ idx[s] < Len(urls[s])
    /\ Send(s, ProcessingMsg(urls[s][idx[s] + 1]))
    /\ pc' = [pc EXCEPT ![s] = "fetch"]
    /\ UNCHANGED <<conn, inbox, tempFile, reader, urls, pageInfos, idx, resp,
                   bodies, defers, outFd, wbuf, row, flushErr, fetchLog, failure,
                   outFile, calc>>

\* A fault of EndLoop: the export is entered only from a loop that had a
\* URL to process.
EndLoopNeedsUrl(s) ==
    /\ pc[s] = "loop"
    /\ idx[s] = Len(urls[s])
    /\ Len(urls[s]) > 0
    /\ pc' = [pc EXCEPT ![s] = "create"]
    /\ UNCHANGED <<conn, sendErr, inbox, tempFile, reader, urls, pageInfos, idx,
                   resp, bodies, defers, outFd, wbuf, row, flushErr, events,
                   fetchLog, failure, outFile, calc>>

\* The range is exhausted: on to the export.
EndLoop(s) ==
    /\ pc[s] = "loop"
    /\ idx[s] = Len(urls[s])
    /\ pc' = [pc EXCEPT ![s] = "create"]
    /\ UNCHANGED <<conn, sendErr, inbox, tempFile, reader, urls, pageInfos, idx,
                   resp, bodies, defers, outFd, wbuf, row, flushErr, events,
                   fetchLog, failure, outFile, calc>>

\* A fault of FetchFailed: the branch continues without appending a record.
FetchFailedNoRecord(s, url) ==
    /\ idx' = [idx EXCEPT ![s] = @ + 1]
    /\ pc' = [pc EXCEPT ![s] = "loop"]
    /\ UNCHANGED <<pageInfos, resp, bodies, defers, failure>>

\* A fault of FetchFailed: the branch returns instead of continuing.
FetchFailedReturns(s, url) ==
    /\ pageInfos' = [pageInfos EXCEPT ![s] = Append(@, FetchErrorInfo(url))]
    /\ idx' = [idx EXCEPT ![s] = @ + 1]
    /\ Fail(s, "FetchError")
    /\ UNCHANGED <<resp, bodies, defers>>

\* The branch taken when http.Get returns an error: the record is appended
\* and the loop continues with the next URL.
FetchFailed(s, url) ==
    /\ pageInfos' = [pageInfos EXCEPT ![s] = Append(@, FetchErrorInfo(url))]
    /\ idx' = [idx EXCEPT ![s] = @ + 1]
    /\ pc' = [pc EXCEPT ![s] = "loop"]
    /\ UNCHANGED <<resp, bodies, defers, failure>>

\* A fault of FetchDone: the close of the body is not deferred.
FetchDoneNoDefer(s, o) ==
    /\ resp' = [resp EXCEPT ![s] =
                   [StatusCode |-> o.StatusCode, loadTime |-> o.elapsed,
                    body |-> o.body]]
    /\ bodies' = [bodies EXCEPT ![s] = Append(@, 0)]
    /\ pc' = [pc EXCEPT ![s] = "parse"]
    /\ UNCHANGED <<pageInfos, idx, failure, defers>>

\* The branch taken on a response: defer resp.Body.Close(); loadTime := time.Since(start)
FetchDone(s, o) ==
    /\ resp' = [resp EXCEPT ![s] =
                   [StatusCode |-> o.StatusCode, loadTime |-> o.elapsed,
                    body |-> o.body]]
    /\ bodies' = [bodies EXCEPT ![s] = Append(@, 0)]
    /\ Defer(s, <<Deferred("resp.Body.Close", Len(bodies[s]) + 1)>>)
    /\ pc' = [pc EXCEPT ![s] = "parse"]
    /\ UNCHANGED <<pageInfos, idx, failure>>

\* start := time.Now(); resp, err := http.Get(url)
Fetch(s) ==
    /\ pc[s] = "fetch"
    /\ \E o \in Outcomes :
         LET url == urls[s][idx[s] + 1]
         IN  /\ fetchLog' = [fetchLog EXCEPT ![s] =
                                Append(@, [url |-> url, outcome |-> o])]
             /\ IF o.err THEN FetchFailed(s, url) ELSE FetchDone(s, o)
    /\ UNCHANGED <<conn, sendErr, inbox, tempFile, reader, urls, outFd, wbuf,
                   row, flushErr, events, outFile, calc>>

\* goquery.NewDocumentFromReader failed: the record is appended and the loop
\* continues with the next URL.
ParseFailed(s, url) ==
    /\ pageInfos' = [pageInfos EXCEPT ![s] = Append(@, ParseErrorInfo(url, resp[s]))]
    /\ UNCHANGED <<events, sendErr>>

\* The page parsed: title, checkSelfReferencingLinks, the record, and the
\* progress message.
ParseDone(s, url) ==
    /\ pageInfos' = [pageInfos EXCEPT ![s] = Append(@, PageInfoOf(url, resp[s]))]
    /\ Send(s, ProgressMsg(ProgressPercent(idx[s], Len(urls[s]))))

\* doc, err := goquery.NewDocumentFromReader(resp.Body) and the rest of the
\* loop body.
Parse(s) ==
    /\ pc[s] = "parse"
    /\ LET url == urls[s][idx[s] + 1]
       IN  IF resp[s].body.ok THEN ParseDone(s, url) ELSE ParseFailed(s, url)
    /\ idx' = [idx EXCEPT ![s] = @ + 1]
    /\ resp' = [resp EXCEPT ![s] = NoResp]
    /\ pc' = [pc EXCEPT ![s] = "loop"]
    /\ UNCHANGED <<conn, inbox, tempFile, reader, urls, bodies, defers, outFd,
                   wbuf, row, flushErr, fetchLog, failure, outFile, calc>>

\* outputFile, err := os.Create("output.csv"): the file is created or
\* truncated; defer outputFile.Close(); writer := csv.NewWriter(outputFile);
\* defer writer.Flush().  On an error one message is sent and the handler
\* returns.
CreateOutput(s) ==
    /\ pc[s] = "create"
    /\ \E ok \in BOOLEAN :
         IF ok
         THEN /\ outFile' = [exists |-> TRUE, rows |-> <<>>]
              /\ outFd' = [outFd EXCEPT ![s] = [state |-> "open", off |-> 0]]
              /\ Defer(s, <<Deferred("outputFile.Close", 0),
                            Deferred("writer.Flush", 0)>>)
              /\ pc' = [pc EXCEPT ![s] = "header"]
              /\ UNCHANGED <<events, sendErr, failure>>
         ELSE /\ Send(s, "Error creating output file")
              /\ Fail(s, "ExportError")
              /\ UNCHANGED <<outFile, outFd, defers>>
    /\ UNCHANGED <<conn, inbox, tempFile, reader, urls, pageInfos, idx, resp,
                   bodies, wbuf, row, flushErr, fetchLog, calc>>

\* writer.Write(record): the row goes into the writer's buffer (bufio, 4096
\* bytes; the reports modelled are shorter), the returned error is dropped.
BufferRow(s, r) == wbuf' = [wbuf EXCEPT ![s] = Append(@, r)]

\* writer.Write([]string{"URL", "Title", ...})
WriteHeader(s) ==
    /\ pc[s] = "header"
    /\ BufferRow(s, Header)
    /\ pc' = [pc EXCEPT ![s] = "rows"]
    /\ UNCHANGED <<conn, sendErr, inbox, tempFile, reader, urls, pageInfos, idx,
                   resp, bodies, defers, outFd, row, flushErr, events, fetchLog,
                   failure, outFile, calc>>

\* for _, pageInfo := range pageInfos { writer.Write(...) }
WriteRow(s) ==
    /\ pc[s] = "rows"
    /\ row[s] < Len(pageInfos[s])
    /\ BufferRow(s, RowOf(pageInfos[s][row[s] + 1]))
    /\ row' = [row EXCEPT ![s] = @ + 1]
    /\ UNCHANGED <<pc, conn, sendErr, inbox, tempFile, reader, urls, pageInfos,
                   idx, resp, bodies, defers, outFd, flushErr, events, fetchLog,
                   failure, outFile, calc>>

\* conn.WriteMessage(..., "Processing completed")
SendCompleted(s) ==
    /\ pc[s] = "rows"
    /\ row[s] = Len(pageInfos[s])
    /\ Send(s, "Processing completed")
    /\ pc' = [pc EXCEPT ![s] = "link"]
    /\ UNCHANGED <<conn, inbox, tempFile, reader, urls, pageInfos, idx, resp,
                   bodies, defers, outFd, wbuf, row, flushErr, fetchLog, failure,
                   outFile, calc>>

\* conn.WriteMessage(..., "Download link: /download/output.csv"), the last
\* statement of the handler.
SendLink(s) ==
    /\ pc[s] = "link"
    /\ Send(s, "Download link: /download/output.csv")
    /\ pc' = [pc EXCEPT ![s] = "return"]
    /\ UNCHANGED <<conn, inbox, tempFile, reader, urls, pageInfos, idx, resp,
                   bodies, defers, outFd, wbuf, row, flushErr, fetchLog, failure,
                   outFile, calc>>

(***************************************************************************)
(* The return of the handler runs the deferred calls, last registered      *)
(* first, on the objects they were registered for.                         *)
(***************************************************************************)

\* rows written at row offset off of a file holding `old`.
WriteAt(old, off, rows) ==
    SubSeq(old, 1, off) \o rows \o SubSeq(old, off + Len(rows) + 1, Len(old))

\* writer.Flush(): the buffer is written at the file's offset.  The write
\* takes the first n rows of the buffer; with n short of the whole buffer it
\* has failed, and the error stays in the writer, where nothing reads it.
FlushWriter(st, n) ==
    [st EXCEPT !.file.rows = WriteAt(@, st.fd.off, SubSeq(st.buf, 1, n)),
               !.fd.off = @ + n,
               !.buf = SubSeq(@, n + 1, Len(@)),
               !.err = @ \/ n < Len(st.buf)]

\* One deferred call applied to the objects st of the session.
RunDeferred(d, st, n) ==
    CASE d.call = "writer.Flush"     -> FlushWriter(st, n)
      [] d.call = "outputFile.Close" -> [st EXCEPT !.fd.state = "closed"]
      [] d.call = "resp.Body.Close"  -> [st EXCEPT !.bodies[d.arg] = @ + 1]
      [] d.call = "file.Close"       -> [st EXCEPT !.temp.fd = "closed"]
      [] d.call = "os.Remove"        -> [st EXCEPT !.temp.exists = FALSE]
      [] d.call = "conn.Close"       -> [st EXCEPT !.conn = "closed"]

\* The deferred calls of `stack` run last in, first out.
RECURSIVE RunDefers(_, _, _)
RunDefers(stack, st, n) ==
    IF stack = <<>> THEN st
    ELSE RunDefers(SubSeq(stack, 1, Len(stack) - 1),
                   RunDeferred(stack[Len(stack)], st, n), n)

\* The handler returns; n rows of the writer's buffer reach output.csv.
Return(s) ==
    /\ pc[s] = "return"
    /\ \E n \in 0..Len(wbuf[s]) :
         LET st == RunDefers(defers[s],
                             [conn |-> conn[s], temp |-> tempFile[s],
                              bodies |-> bodies[s], fd |-> outFd[s],
                              buf |-> wbuf[s], err |-> flushErr[s],
                              file |-> outFile],
                             n)
         IN  /\ conn' = [conn EXCEPT ![s] = st.conn]
             /\ tempFile' = [tempFile EXCEPT ![s] = st.temp]
             /\ bodies' = [bodies EXCEPT ![s] = st.bodies]
             /\ outFd' = [outFd EXCEPT ![s] = st.fd]
             /\ wbuf' = [wbuf EXCEPT ![s] = st.buf]
             /\ flushErr' = [flushErr EXCEPT ![s] = st.err]
             /\ outFile' = st.file
    /\ defers' = [defers EXCEPT ![s] = <<>>]
    /\ pc' = [pc EXCEPT ![s] = "done"]
    /\ UNCHANGED <<sendErr, inbox, reader, urls, pageInfos, idx, resp, row,
                   events, fetchLog, failure, calc>>

\* The progress computation of line 170 applied to one (i, totalUrls).
ComputeProgress ==
    /\ calc.p = -1
    /\ calc.n > 0
    /\ calc' = [calc EXCEPT !.p = ProgressPercent(calc.i, calc.n)]
    /\ UNCHANGED <<pc, conn, sendErr, inbox, tempFile, reader, urls, pageInfos,
                   idx, resp, bodies, defers, outFd, wbuf, row, flushErr,
                   events, fetchLog, failure, outFile>>

Next ==
    \E s \in Sessions :
        \/ Upgrade(s)
        \/ ClientDisconnect(s)
        \/ ReadMessage(s)
        \/ CreateTemp(s)
        \/ WriteTemp(s)
        \/ ReadRecord(s)
        \/ BeginUrl(s)
        \/ EndLoop(s)
        \/ Fetch(s)
        \/ Parse(s)
        \/ CreateOutput(s)
        \/ WriteHeader(s)
        \/ WriteRow(s)
        \/ SendCompleted(s)
        \/ SendLink(s)
        \/ Return(s)

\* One session, from the upgrade of its request to the return of the handler.
Spec == Init /\ [][Next]_vars

\* The statements of the handler from the end of the fetch loop to its
\* return.
ExportStep(s) ==
    \/ EndLoop(s)
    \/ CreateOutput(s)
    \/ WriteHeader(s)
    \/ WriteRow(s)
    \/ SendCompleted(s)
    \/ SendLink(s)
    \/ Return(s)

\* Batches of records that are a URL or blank: those of up to MaxRecords
\* blank records give no URL.
BlankOrUrlBatches ==
    UNION {[1..n -> {Line(<< <<"a">> >>), Line(<< <<" ">> >>)}] : n \in 0..MaxRecords}

InitFair ==
    /\ InitWith({1})
    /\ inbox[1] \in BlankOrUrlBatches
    /\ calc = NoCalc

\* One session on such a batch.  The handler's goroutine is scheduled, and
\* from the end of the fetch loop on no statement waits for the network or
\* for another session (http.Get, with no timeout set, may wait for ever).
SpecFair ==
    InitFair /\ [][Next]_vars /\ \A s \in Sessions : WF_vars(ExportStep(s))

\* The progress computation for every URL index of every batch size up to
\* MaxTotal.
InitProgress ==
    /\ InitWith({})
    /\ outFile = NoFile
    /\ \E n \in 1..MaxTotal : \E i \in 0..(n - 1) :
          calc = [i |-> i, n |-> n, p |-> -1]

NextProgress == ComputeProgress

SpecProgress == InitProgress /\ [][NextProgress]_vars

\* Batches of sessions that run side by side: no record, or one URL.
ShortBatches ==
    {<<>>, <<Line(<< <<"a">> >>)>>, <<Line(<< <<"b">> >>)>>}

\* Two requests to /upload are served at once, each by its own goroutine
\* running wsHandler.
InitConcurrent ==
    /\ InitWith(Sessions)
    /\ inbox \in [Sessions -> ShortBatches]
    /\ calc = NoCalc

SpecConcurrent == InitConcurrent /\ [][Next]_vars

\* The first fields of a batch of well-formed records.
FirstFields(batch) == [k \in 1..Len(batch) |-> batch[k].fields[1]]

\* Two sessions are given batches of well-formed records with the same
\* first fields in the same order, and run up to the end of the read loop.
InitIngestPair ==
    /\ InitWith(Sessions)
    /\ \A s \in Sessions : \A k \in 1..Len(inbox[s]) : inbox[s][k].ok
    /\ FirstFields(inbox[1]) = FirstFields(inbox[2])
    /\ outFile = NoFile
    /\ calc = NoCalc

NextIngest ==
    \E s \in Sessions :
        \/ Upgrade(s)
        \/ ReadMessage(s)
        \/ CreateTemp(s)
        \/ WriteTemp(s)
        \/ ReadRecord(s)

SpecIngestPair == InitIngestPair /\ [][NextIngest]_vars

\* A parsed document and what lines 159-160 take from it, not yet taken.
PageOf(doc) ==
    [doc |-> doc, done |-> FALSE, title |-> "", found |-> FALSE, details |-> ""]

\* title := doc.Find("title").Text()
\* selfReferencingURL, anchorDetails := checkSelfReferencingLinks(doc)
ExtractPage ==
    /\ ~calc.done
    /\ LET links == checkSelfReferencingLinks(calc.doc)
       IN  calc' = [calc EXCEPT !.done = TRUE,
                                !.title = TitleText(calc.doc),
                                !.found = links.found,
                                !.details = links.details]
    /\ UNCHANGED <<pc, conn, sendErr, inbox, tempFile, reader, urls, pageInfos,
                   idx, resp, bodies, defers, outFd, wbuf, row, flushErr,
                   events, fetchLog, failure, outFile>>

\* The extraction applied to every document of DocSamples.
InitPage ==
    /\ InitWith({})
    /\ outFile = NoFile
    /\ \E doc \in DocSamples : calc = PageOf(doc)

NextPage == ExtractPage

SpecPage == InitPage /\ [][NextPage]_vars

(***************************************************************************)
(* Properties.                                                             *)
(***************************************************************************)

\* The session state machine of the design, read off the handler's position.
Phase(s) ==
    CASE failure[s] # "none" -> "FAILED"
      [] pc[s] \in {"off", "idle", "refused"} -> "IDLE"
      [] pc[s] \in {"read", "mktemp", "wrtemp", "ingest"} -> "RECEIVING_INPUT"
      [] pc[s] \in {"loop", "fetch", "parse"} -> "PROCESSING"
      [] pc[s] \in {"create", "header", "rows", "link", "return"} -> "FINALIZING"
      [] OTHER -> "DONE"

Sent(s, m) == \E j \in 1..Len(events[s]) : events[s][j] = m

ErrorMsgs == {"Error reading CSV file", "Error creating output file"}

IsProgressMsg(m) == \E p \in 0..100 : m = ProgressMsg(p)

\* The handler has returned, the report was created and every write to it
\* went through.
ExportSucceeded(s) ==
    /\ pc[s] = "done"
    /\ failure[s] = "none"
    /\ outFd[s].state = "closed"
    /\ ~flushErr[s]

\* C1: once the handler has returned after a successful export, output.csv
\* holds the header row and then exactly one row per ingested URL, row k
\* carrying URL k, whatever branch of the fetch loop each URL took.
C1_ReportHoldsOneRowPerUrl ==
    \A s \in Sessions :
        ExportSucceeded(s) =>
            /\ outFile.exists
            /\ Len(outFile.rows) = 1 + Len(urls[s])
            /\ outFile.rows[1] = Header
            /\ \A k \in 1..Len(urls[s]) : outFile.rows[k + 1][1] = urls[s][k]

\* A successful export of two different URLs, the first with a failed fetch,
\* the second with an unreadable body.
C1_Witness ==
    /\ ExportSucceeded(1)
    /\ Len(urls[1]) = 2
    /\ urls[1][1] # urls[1][2]
    /\ fetchLog[1][1].outcome.err
    /\ ~fetchLog[1][2].outcome.err
    /\ ~fetchLog[1][2].outcome.body.ok

\* C2: between two URLs the events sent so far are, for every URL processed,
\* one "Processing: <url>" followed by one "Progress: <p>%", whatever the
\* outcome of its fetch and parse.
C2_OneProcessingOneProgressPerUrl ==
    \A s \in Sessions :
        pc[s] = "loop" =>
            /\ Len(events[s]) = 2 * idx[s]
            /\ \A j \in 1..idx[s] :
                  /\ events[s][2 * j - 1] = ProcessingMsg(urls[s][j])
                  /\ IsProgressMsg(events[s][2 * j])

\* C3: the percentage computed for index i of n URLs is floor((i+1)*100/n),
\* lies in 1..100, is 100 for the last URL and does not decrease with i.
C3_ProgressIsExactFloor ==
    calc.p # -1 =>
        /\ calc.p = ((calc.i + 1) * 100) \div calc.n
        /\ calc.p \in 1..100
        /\ (calc.i = calc.n - 1 => calc.p = 100)
        /\ (calc.i + 1 < calc.n => calc.p <= ProgressPercent(calc.i + 1, calc.n))

\* C4: when "Processing completed" has been sent, output.csv already holds
\* the header and a row for every record.
C4_CompletionAfterReportWritten ==
    \A s \in Sessions :
        Sent(s, "Processing completed") =>
            /\ outFile.exists
            /\ Len(outFile.rows) = 1 + Len(pageInfos[s])
            /\ outFile.rows[1] = Header
            /\ \A k \in 1..Len(pageInfos[s]) :
                  outFile.rows[k + 1] = RowOf(pageInfos[s][k])

\* C5: after a decoding error, at whatever line, no fetch has been issued,
\* the one event sent is the error message, and output.csv has not been
\* opened by the session and is as it was before the session.
C5_DecodeErrorAbortsBeforeAnyFetch ==
    \A s \in Sessions :
        failure[s] = "InputDecodeError" =>
            /\ fetchLog[s] = <<>>
            /\ pageInfos[s] = <<>>
            /\ events[s] = <<"Error reading CSV file">>
            /\ outFd[s].state = "none"
            /\ outFile \in {NoFile, OldReport}
            /\ pc[s] \in {"return", "done"}

\* The handler has returned on a decoding error met after a record that gave
\* a URL.
C5_Witness ==
    /\ failure[1] = "InputDecodeError"
    /\ pc[1] = "done"
    /\ Len(urls[1]) >= 1
    /\ outFile = OldReport

\* C6: when the report could not be created or a write to it failed, an
\* error message has been sent and neither "Processing completed" nor the
\* download link has.
C6_ExportErrorIsReported ==
    \A s \in Sessions :
        (failure[s] = "ExportError" \/ flushErr[s]) =>
            /\ \E m \in ErrorMsgs : Sent(s, m)
            /\ ~Sent(s, "Processing completed")
            /\ ~Sent(s, "Download link: /download/output.csv")

\* Every http.Get issued so far was for the next URL of the list, in order:
\* no URL is skipped and none is fetched twice; once the loop is over every
\* URL has been fetched.
FetchedOncePerUrl(s) ==
    /\ Len(fetchLog[s]) = idx[s] + (IF pc[s] = "parse" THEN 1 ELSE 0)
    /\ Len(fetchLog[s]) <= Len(urls[s])
    /\ \A j \in 1..Len(fetchLog[s]) : fetchLog[s][j].url = urls[s][j]
    /\ (Phase(s) \in {"FINALIZING", "DONE"} \/ failure[s] = "ExportError")
          => Len(fetchLog[s]) = Len(urls[s])

\* C7: a session fails only out of RECEIVING_INPUT or FINALIZING; out of
\* PROCESSING it goes on processing or to FINALIZING; and every URL is
\* fetched exactly once, those after a failed one included.
C7_PerUrlFailureNeverAborts ==
    [][\A s \in Sessions :
          /\ (Phase(s) # "FAILED" /\ Phase(s)' = "FAILED")
                => Phase(s) \in {"RECEIVING_INPUT", "FINALIZING"}
          /\ Phase(s) = "PROCESSING" => Phase(s)' \in {"PROCESSING", "FINALIZING"}
          /\ FetchedOncePerUrl(s)']_vars

\* The export is reached after the first of two URLs failed to fetch and
\* the second could not be parsed.
C7_Witness ==
    /\ pc[1] = "create"
    /\ Len(fetchLog[1]) = 2
    /\ fetchLog[1][1].outcome.err
    /\ ~fetchLog[1][2].outcome.err
    /\ ~fetchLog[1][2].outcome.body.ok

\* The record of URL j is what the branch its fetch took prescribes.
FailureRecordsAsSpecified(s) ==
    \A j \in 1..Len(pageInfos[s]) :
        LET o == fetchLog[s][j].outcome
            r == pageInfos[s][j]
        IN  /\ o.err =>
                r = [URL |-> urls[s][j], Title |-> "Error", StatusCode |-> 0,
                     LoadTime |-> 0, SelfReferencingURL |-> FALSE,
                     AnchorDetails |-> ""]
            /\ (~o.err /\ ~o.body.ok) =>
                r = [URL |-> urls[s][j], Title |-> "Error",
                     StatusCode |-> o.StatusCode, LoadTime |-> o.elapsed,
                     SelfReferencingURL |-> FALSE, AnchorDetails |-> ""]

\* C8 as stated: the failure records are as specified, and a record with
\* status code 0 belongs to a URL whose fetch failed.
C8_StatusZeroOnlyForFailedFetch ==
    \A s \in Sessions :
        /\ FailureRecordsAsSpecified(s)
        /\ \A j \in 1..Len(pageInfos[s]) :
              pageInfos[s][j].StatusCode = 0 => fetchLog[s][j].outcome.err

\* C8 as amended: the failure records are as specified, and a record with
\* status code 0 belongs to a URL whose fetch failed or whose response
\* carried the status code 0.
C8_FailuresCapturedAsRecords ==
    \A s \in Sessions :
        /\ FailureRecordsAsSpecified(s)
        /\ \A j \in 1..Len(pageInfos[s]) :
              pageInfos[s][j].StatusCode = 0 =>
                  \/ fetchLog[s][j].outcome.err
                  \/ fetchLog[s][j].outcome.StatusCode = 0

\* Records of a failed fetch and of an unreadable body are held together.
C8_Witness ==
    \E i, j \in 1..Len(pageInfos[1]) :
        /\ fetchLog[1][i].outcome.err
        /\ pageInfos[1][i].StatusCode = 0
        /\ ~fetchLog[1][j].outcome.err /\ ~fetchLog[1][j].outcome.body.ok
        /\ pageInfos[1][j].StatusCode = 404

\* C9 as stated: in every record loadTime is >= 0, and it is 0 exactly when
\* the status code is 0.
C9_LoadTimeZeroIffStatusZero ==
    \A s \in Sessions : \A j \in 1..Len(pageInfos[s]) :
        /\ pageInfos[s][j].LoadTime >= 0
        /\ pageInfos[s][j].LoadTime = 0 <=> pageInfos[s][j].StatusCode = 0

\* C9 as amended: in every record loadTime is >= 0; the record of a failed
\* fetch has loadTime 0 and status code 0; the record of a response has the
\* time measured and the response's status code, either of which may be 0.
C9_LoadTimeOfEachBranch ==
    \A s \in Sessions : \A j \in 1..Len(pageInfos[s]) :
        LET o == fetchLog[s][j].outcome
            r == pageInfos[s][j]
        IN  /\ r.LoadTime >= 0
            /\ o.err => (r.LoadTime = 0 /\ r.StatusCode = 0)
            /\ ~o.err => (r.LoadTime = o.elapsed /\ r.StatusCode = o.StatusCode)

\* A failed fetch and a response whose measured time is not 0.
C9_Witness ==
    \E i, j \in 1..Len(pageInfos[1]) :
        /\ fetchLog[1][i].outcome.err
        /\ ~fetchLog[1][j].outcome.err /\ pageInfos[1][j].LoadTime > 0

\* C10: in every record held, SelfReferencingURL is true exactly when
\* AnchorDetails is not empty.
C10_FlagIffAnchorDetails ==
    \A s \in Sessions : \A j \in 1..Len(pageInfos[s]) :
        pageInfos[s][j].SelfReferencingURL <=> pageInfos[s][j].AnchorDetails # ""

\* A record of a page with a flagged anchor is held beside a failure record.
C10_Witness ==
    \E i, j \in 1..Len(pageInfos[1]) :
        /\ pageInfos[1][i].SelfReferencingURL
        /\ pageInfos[1][i].AnchorDetails # ""
        /\ pageInfos[1][j].Title = "Error"

\* The anchors of a document that the design calls disqualifying: href is
\* the one character "#", and the class attribute's whole string (the empty
\* string without the attribute) is not in the ignore-set.
Disqualifying(anchor) ==
    /\ anchor.href = Attr("#")
    /\ (IF anchor.class.has THEN anchor.class.val ELSE "") \notin ignoredClasses

\* The descriptor of an anchor: its href, class and title attributes, the
\* title being "No title" without the attribute.
Descriptor(anchor) ==
    "<a href=\"#\" class=\""
        \o (IF anchor.class.has THEN anchor.class.val ELSE "")
        \o "\" title=\""
        \o (IF anchor.title.has THEN anchor.title.val ELSE "No title")
        \o "\">"

\* C11: the anchor details of a parsed page are the descriptors of its
\* disqualifying anchors, one each, in document order and joined by commas,
\* and nothing for any other anchor.
C11_OneDescriptorPerDisqualifyingAnchor ==
    calc.done =>
        LET hits == SelectSeq(calc.doc.anchors, Disqualifying)
        IN  calc.details =
                Join([j \in 1..Len(hits) |-> Descriptor(hits[j])], ",")

\* Extraction from a page of two anchors with "#": one whose class has a
\* listed name among others and no title, and one of a listed class.
C11_Witness ==
    /\ calc.done
    /\ Len(calc.doc.anchors) = 2
    /\ calc.doc.anchors[1] =
          [href |-> Attr("#"), class |-> Attr("hash-scroll cta"), title |-> Absent]
    /\ calc.doc.anchors[2] =
          [href |-> Attr("#"), class |-> Attr("hash-scroll"), title |-> Attr("Home")]
    /\ calc.details = "<a href=\"#\" class=\"hash-scroll cta\" title=\"No title\">"


\* The URL the design takes from a record: the first field with a leading
\* byte-order mark stripped, then trimmed.
StripThenTrim(record) == Str(TrimSpace(removeBOM(record[1])))

\* C12: every record read without error adds to the URL list the trimmed,
\* BOM-stripped first field, or nothing when that is empty; so the list is
\* these values in record order.
C12_IngestIsTrimOfStrippedField ==
    [][\A s \in Sessions :
          (pc[s] = "ingest" /\ reader'[s] # reader[s]) =>
              LET url == StripThenTrim(Head(reader[s].unread).fields)
              IN  urls'[s] = urls[s] \o (IF url = "" THEN <<>> ELSE <<url>>)]_vars


\* The URLs whose turn of the fetch loop has begun.
Begun(s) == idx[s] + (IF pc[s] \in {"fetch", "parse"} THEN 1 ELSE 0)

\* The events of the fetch loop are in input order: the "Processing" events
\* are those of the URLs begun, in the order of the list, and a "Progress"
\* event comes right after the "Processing" event of its URL, carries that
\* URL's percentage, and comes after that URL's record.
EventsInInputOrder(s) ==
    LET IsProcessing(e) ==
            \E j \in 1..Len(urls[s]) : e = ProcessingMsg(urls[s][j])
        before(p) == Len(SelectSeq(SubSeq(events[s], 1, p), IsProcessing))
    IN  /\ SelectSeq(events[s], IsProcessing)
              = [j \in 1..Begun(s) |-> ProcessingMsg(urls[s][j])]
        /\ \A p \in 1..Len(events[s]) :
              IsProgressMsg(events[s][p]) =>
                  /\ p > 1
                  /\ IsProcessing(events[s][p - 1])
                  /\ before(p) <= Len(pageInfos[s])
                  /\ events[s][p] =
                        ProgressMsg(ProgressPercent(before(p) - 1, Len(urls[s])))

\* C13: the loop events are in input order; a URL's turn begins, and its
\* fetch is issued, only when every earlier URL has its record, so that at
\* most one fetch is without its record at any time.
C13_StrictlySequential ==
    /\ [](\A s \in Sessions : EventsInInputOrder(s))
    /\ [][\A s \in Sessions :
          /\ Begun(s)' # Begun(s) => Len(pageInfos[s]) = Begun(s)
          /\ fetchLog'[s] # fetchLog[s] =>
                /\ Len(pageInfos[s]) = Len(fetchLog[s])
                /\ fetchLog'[s][Len(fetchLog'[s])].url = urls[s][Len(pageInfos[s]) + 1]
          /\ Len(fetchLog'[s]) - Len(pageInfos'[s]) \in {0, 1}]_vars

\* The second of two different URLs has been announced after the first
\* was fetched, recorded and reported.
C13_Witness ==
    /\ pc[1] = "fetch"
    /\ idx[1] = 1
    /\ urls[1][1] # urls[1][2]
    /\ events[1] = <<ProcessingMsg(urls[1][1]), ProgressMsg(50),
                     ProcessingMsg(urls[1][2])>>


\* The session holds output.csv open: created or truncated by it, and not
\* yet flushed and closed.
WritingReport(s) == outFd[s].state = "open"

\* C14: output.csv is never held open for writing by two sessions at once.
C14_ReportWrittenByOneSessionAtATime ==
    \A s, t \in Sessions :
        (WritingReport(s) /\ WritingReport(t)) => s = t


\* C15: the title taken from a parsed page is the text of its first <title>
\* element, and the empty string when it has none.
C15_TitleIsFirstTitleElement ==
    calc.done =>
        calc.title = (IF calc.doc.titles = <<>> THEN "" ELSE calc.doc.titles[1])


\* The read loop of the session is over: it ended at io.EOF, or on an error.
IngestOver(s) == pc[s] = "loop" \/ failure[s] = "InputDecodeError"

\* C16: two sessions whose batches have the same first fields end ingestion
\* alike: both with an error, or both without and with the same URL list.
C16_IngestionDependsOnFirstFieldsOnly ==
    (IngestOver(1) /\ IngestOver(2)) =>
        /\ failure[1] = failure[2]
        /\ events[1] = events[2]
        /\ failure[1] = "none" => urls[1] = urls[2]


\* C17: once a conn.WriteMessage of the session has failed, the session
\* issues no further http.Get.
C17_NoFetchAfterFailedWrite ==
    [][\A s \in Sessions : sendErr[s] => fetchLog'[s] = fetchLog[s]]_vars


\* The session got its temporary file from os.CreateTemp.
CreatedTemp(s) ==
    /\ pc[s] \notin {"off", "idle", "refused", "read", "mktemp"}
    /\ failure[s] \notin {"ReadMessage", "CreateTemp"}

\* C18: when the handler has returned, by whatever path, the temporary file
\* it created is closed and removed.
C18_TempFileReleasedOnEveryExit ==
    \A s \in Sessions :
        (pc[s] = "done" /\ CreatedTemp(s)) =>
            /\ tempFile[s].fd = "closed"
            /\ ~tempFile[s].exists

\* The handler has returned on a failed write to the temporary file, which
\* is closed and removed.
C18_Witness ==
    /\ pc[1] = "done"
    /\ failure[1] = "WriteTemp"
    /\ tempFile[1] = [fd |-> "closed", exists |-> FALSE]


\* The batch was decoded without error and gave no URL.
NoUrlIngested(s) ==
    /\ urls[s] = <<>>
    /\ pc[s] \notin {"off", "idle", "refused", "read", "mktemp", "wrtemp", "ingest"}
    /\ failure[s] \in {"none", "ExportError"}

CompletionEvents ==
    <<"Processing completed", "Download link: /download/output.csv">>

\* With no URL nothing is fetched, no turn of the fetch loop is entered (so
\* no percentage is computed), no record is made, and the only events are
\* the completion events, or the error of a report that could not be
\* created; a report written holds the header row alone.
EmptyRunIsQuiet(s) ==
    /\ pc[s] \notin {"fetch", "parse"}
    /\ fetchLog[s] = <<>>
    /\ pageInfos[s] = <<>>
    /\ \E n \in 0..2 :
          \/ events[s] = SubSeq(CompletionEvents, 1, n)
          \/ events[s] = <<"Error creating output file">>
    /\ (pc[s] = "done" /\ failure[s] = "none") => events[s] = CompletionEvents
    /\ ExportSucceeded(s) => outFile = [exists |-> TRUE, rows |-> <<Header>>]

\* C19: a session whose batch gave no URL fetches nothing, sends no
\* "Processing" or "Progress" event, computes no percentage, and goes on to
\* the return of the handler, with the header-only report and the two
\* completion events.
C19_EmptyListRunsToCompletion ==
    /\ [](\A s \in Sessions : NoUrlIngested(s) => EmptyRunIsQuiet(s))
    /\ \A s \in Sessions : NoUrlIngested(s) ~> (pc[s] = "done")

\* A batch of one blank record has been run to the end: the report holds
\* the header row alone.
C19_Witness ==
    /\ NoUrlIngested(1)
    /\ reader[1].fieldsPerRecord = 1
    /\ ExportSucceeded(1)
    /\ outFile.rows = <<Header>>
    /\ events[1] = CompletionEvents


\* The responses the session has obtained: the fetches that did not fail.
Responses(s) ==
    SelectSeq(fetchLog[s], LAMBDA f : ~f.outcome.err)

\* C20: the session holds one body per response obtained; no body is ever
\* closed twice; and once the handler has returned, by whatever path, every
\* body has been closed once.
C20_EveryBodyClosedOnceByReturn ==
    \A s \in Sessions :
        /\ Len(bodies[s]) = Len(Responses(s))
        /\ \A k \in 1..Len(bodies[s]) : bodies[s][k] <= 1
        /\ pc[s] = "done" => \A k \in 1..Len(bodies[s]) : bodies[s][k] = 1

\* The handler has returned on a report that could not be created, after
\* two responses; both bodies are closed.
C20_Witness ==
    /\ pc[1] = "done"
    /\ failure[1] = "ExportError"
    /\ bodies[1] = <<1, 1>>

====
